---- MODULE Spec2Model ----
(***************************************************************************)
(* The voice-turn worker of sandbox-3d-brain: one fetch handler that takes *)
(* a recorded clip, transcribes it (ElevenLabs speech-to-text), asks       *)
(* Gemini for a reply and has ElevenLabs voice it.  The repository holds   *)
(* five revisions of the handler; rev selects the one that serves the      *)
(* request:                                                                *)
(*   "part_000"   src/unnamed/part_000           static CORS, raw text     *)
(*   "part_001a"  src/unnamed/part_001 l.1-188   allow-list CORS, raw text *)
(*   "part_001b"  src/unnamed/part_001 l.189-313 size guard, fallbacks     *)
(*   "part_002"   src/unnamed/part_002           history, fallbacks        *)
(*   "index"      src/src/index.ts               history, JSON contract    *)
(* A JavaScript string is a sequence of symbols; a fixed sentence of the   *)
(* code is a one-symbol sequence.  A value that may be undefined/null is a *)
(* record [def, s].                                                        *)
(***************************************************************************)
EXTENDS Integers, Sequences, FiniteSets

VARIABLES rev, pc, method, audio, historyRaw, origin, allowed,
          sttResponse, userText, geminiPayload, geminiResponse,
          aiText, brainData, ttsText, ttsResponse, calls, response

vars == <<rev, pc, method, audio, historyRaw, origin, allowed,
          sttResponse, userText, geminiPayload, geminiResponse,
          aiText, brainData, ttsText, ttsResponse, calls, response>>

\* ---------------------------------------------------------------- bounds
MaxTextLen == 2        \* longest transcript / plain reply, in symbols
MaxHistory == 2        \* longest submitted history array
MaxAllowedLen == 3     \* longest ALLOWED_ORIGINS setting, in symbols
MaxOriginLen == 1      \* longest Origin header, in symbols

\* ------------------------------------------------------- program constants
MinAudioSize == 100

Revs == {"part_000", "part_001a", "part_001b", "part_002", "index"}

\* ------------------------------------------------------------ JS values
Undefined == [def |-> FALSE, s |-> <<>>]
Str(s) == [def |-> TRUE, s |-> s]

StringsOver(alphabet, n) == UNION {[1..k -> alphabet] : k \in 0..n}

\* `${v}` and the WebIDL string conversion of Headers.set: undefined
\* becomes the nine letters "undefined".
JsString(v) == IF v.def THEN v.s ELSE <<"undefined">>

\* JavaScript truthiness of a string-or-undefined value.
Truthy(v) == v.def /\ v.s # <<>>

\* a || b
OrElse(a, b) == IF Truthy(a) THEN a ELSE b

RECURSIVE TrimLeft(_)
TrimLeft(s) == IF s # <<>> /\ Head(s) = " " THEN TrimLeft(Tail(s)) ELSE s

RECURSIVE TrimRight(_)
TrimRight(s) ==
    IF s # <<>> /\ s[Len(s)] = " " THEN TrimRight(SubSeq(s, 1, Len(s) - 1)) ELSE s

\* String.prototype.trim
Trim(s) == TrimRight(TrimLeft(s))

\* String.prototype.split(",")
RECURSIVE SplitFrom(_, _, _)
SplitFrom(s, cur, acc) ==
    IF s = <<>> THEN Append(acc, cur)
    ELSE IF Head(s) = "," THEN SplitFrom(Tail(s), <<>>, Append(acc, cur))
    ELSE SplitFrom(Tail(s), Append(cur, Head(s)), acc)

Split(s) == SplitFrom(s, <<>>, <<>>)

\* Array.prototype.includes
Includes(arr, x) == \E i \in 1..Len(arr) : arr[i] = x

\* ------------------------------------------------------- fixed sentences
STAR == <<"*">>
LOCALHOST == <<"http://localhost:5173">>
HEAR_FALLBACK == Str(<<"I couldn't hear you, Officer. Say again?">>)
ERROR_FALLBACK == Str(<<"My head hurts... (AI Error)">>)
DOTS == Str(<<"...">>)

\* ------------------------------------------------------------------ CORS
NoCors == [acao |-> <<>>, methods |-> "", allowHeaders |-> "", expose |-> ""]

\* part_000: the corsHeaders constant.
corsHeaders_part_000 ==
    [acao |-> STAR, methods |-> "POST, OPTIONS",
     allowHeaders |-> "Content-Type", expose |-> ""]

\* part_001 (second file) and part_002: getCorsHeaders().
getCorsHeaders_static ==
    [acao |-> STAR, methods |-> "GET, POST, OPTIONS",
     allowHeaders |-> "Content-Type, x-api-key", expose |-> ""]

\* index.ts: getCorsHeaders().
getCorsHeaders_index ==
    [acao |-> STAR, methods |-> "POST, OPTIONS",
     allowHeaders |-> "Content-Type, X-Ai-Text, X-User-Text, X-Compliance-Score",
     expose |-> "X-Ai-Text, X-User-Text, X-Compliance-Score"]

\* (env.ALLOWED_ORIGINS || "").split(",")
allowedOrigins(al) == Split(OrElse(al, Str(<<>>)).s)

\* Mutant of getCorsHeaders_dynamic: the fallback branch answers the wildcard.
getCorsHeaders_wildcard(o, al) ==
    IF Truthy(o) /\ Includes(allowedOrigins(al), o.s)
    THEN [acao |-> o.s, methods |-> "GET, POST, OPTIONS",
          allowHeaders |-> "Content-Type, x-api-key", expose |-> ""]
    ELSE [acao |-> STAR, methods |-> "POST, OPTIONS",
          allowHeaders |-> "Content-Type", expose |-> ""]

\* part_001 (first file): getCorsHeaders(request, env).
getCorsHeaders_dynamic(o, al) ==
    IF Truthy(o) /\ Includes(allowedOrigins(al), o.s)
    THEN [acao |-> o.s, methods |-> "GET, POST, OPTIONS",
          allowHeaders |-> "Content-Type, x-api-key", expose |-> ""]
    ELSE [acao |-> OrElse(Str(allowedOrigins(al)[1]), Str(LOCALHOST)).s,
          methods |-> "POST, OPTIONS",
          allowHeaders |-> "Content-Type", expose |-> ""]

\* The CORS headers revision r puts on a response.
Cors(r, o, al) ==
    CASE r = "part_000" -> corsHeaders_part_000
      [] r = "part_001a" -> getCorsHeaders_dynamic(o, al)
      [] r = "index" -> getCorsHeaders_index
      [] OTHER -> getCorsHeaders_static

\* Headers of the request and settings of the environment.
Origins == {Undefined} \cup {Str(s) : s \in StringsOver({"a", "b"}, MaxOriginLen)}
AllowedSettings ==
    {Undefined} \cup {Str(s) : s \in StringsOver({"a", "b", ","}, MaxAllowedLen)}

\* Only the allow-list revision reads the Origin header and ALLOWED_ORIGINS;
\* it does so when it builds a response.
CorsReads(r) ==
    IF r = "part_001a" THEN Origins \X AllowedSettings
    ELSE {<<Undefined, Undefined>>}

\* ---------------------------------------------------------------- inputs
Methods == {"OPTIONS", "GET", "POST"}

\* formData.get("audio"): null, a string field, or a File of some size.
AudioSizes == {MinAudioSize - 1, MinAudioSize}
NoAudio == [present |-> FALSE, isFile |-> FALSE, size |-> 0]
AudioInputs ==
    {NoAudio, [present |-> TRUE, isFile |-> FALSE, size |-> 0]}
    \cup {[present |-> TRUE, isFile |-> TRUE, size |-> n] : n \in AudioSizes}

\* One entry of the submitted history array: a turn {role, content}, or null.
Turn(role, content) == [isNull |-> FALSE, role |-> role, content |-> Str(<<content>>)]
NullItem == [isNull |-> TRUE, role |-> "", content |-> Undefined]
HistoryItems ==
    {Turn("user", "h1"), Turn("assistant", "h2"), Turn("system", "h3"), NullItem}
HistoryArrays == StringsOver(HistoryItems, MaxHistory)

\* formData.get("history"): null, a File, or a string holding some document:
\* the empty string, text that is not JSON, a JSON object, a JSON array.
NoHistory == [type |-> "null", doc |-> "", items |-> <<>>]
HistoryInputs ==
    {NoHistory, [type |-> "File", doc |-> "", items |-> <<>>]}
    \cup {[type |-> "string", doc |-> d, items |-> <<>>] : d \in {"", "invalid", "object"}}
    \cup {[type |-> "string", doc |-> "array", items |-> a] : a \in HistoryArrays}

\* Only the revisions with conversation memory read the history field.
HistoryReads(r) == IF r \in {"part_002", "index"} THEN HistoryInputs ELSE {NoHistory}

ErrBodies == {"quota_exceeded", "invalid_api_key"}
StatusTexts == {"Unauthorized", "Too Many Requests"}

\* Responses of the speech-to-text service.
NoSttResponse == [received |-> FALSE, ok |-> FALSE, text |-> Undefined,
                  errBody |-> "", statusText |-> ""]
Transcripts == {Undefined} \cup {Str(s) : s \in StringsOver({" ", "x"}, MaxTextLen)}
SttResponses ==
    {[received |-> TRUE, ok |-> TRUE, text |-> t, errBody |-> "", statusText |-> "OK"]
        : t \in Transcripts}
    \cup {[received |-> TRUE, ok |-> FALSE, text |-> Undefined, errBody |-> e, statusText |-> st]
        : e \in ErrBodies, st \in StatusTexts}

\* Responses of the generation service: whether the body is JSON at all, and
\* candidates[0].content.parts[0].text when it is there.
JsonDocs == {"{text:'Nah man',compliance:50}", "{text:'Nah man'}",
             "{compliance:50}", "null"}
GeminiTexts ==
    {Undefined} \cup {Str(s) : s \in StringsOver({"x"}, MaxTextLen)}
    \cup {Str(<<d>>) : d \in JsonDocs}
NoGeminiResponse == [received |-> FALSE, ok |-> FALSE, parseable |-> FALSE,
                     cand |-> Undefined, errBody |-> ""]
GeminiResponses ==
    {[received |-> TRUE, ok |-> TRUE, parseable |-> TRUE, cand |-> t, errBody |-> ""]
        : t \in GeminiTexts}
    \cup {[received |-> TRUE, ok |-> TRUE, parseable |-> FALSE, cand |-> Undefined,
           errBody |-> ""]}
    \cup {[received |-> TRUE, ok |-> FALSE, parseable |-> p, cand |-> Undefined, errBody |-> e]
        : p \in BOOLEAN, e \in ErrBodies}

\* Responses of the speech-synthesis service.
AudioBytes == {"mp3-A", "mp3-B"}
NoTtsResponse == [received |-> FALSE, ok |-> FALSE, audio |-> "", errBody |-> ""]
TtsResponses ==
    {[received |-> TRUE, ok |-> TRUE, audio |-> b, errBody |-> ""] : b \in AudioBytes}
    \cup {[received |-> TRUE, ok |-> FALSE, audio |-> "", errBody |-> e] : e \in ErrBodies}

\* ------------------------------------------------------------- responses
NoResponse ==
    [sent |-> FALSE, status |-> 0, cors |-> NoCors, contentType |-> "",
     xUserText |-> Undefined, xAiText |-> Undefined, xScore |-> Undefined,
     bodyKind |-> "none", error |-> <<>>, audio |-> ""]

\* new Response(null, { headers })
PreflightResponse(r, o, al) ==
    [NoResponse EXCEPT !.sent = TRUE, !.status = 200, !.cors = Cors(r, o, al)]

\* new Response("Method not allowed", { status: 405, headers })
MethodNotAllowedResponse(r, o, al) ==
    [NoResponse EXCEPT !.sent = TRUE, !.status = 405, !.cors = Cors(r, o, al),
                       !.contentType = "text/plain", !.bodyKind = "text"]

\* The catch block: new Response(JSON.stringify({ error: err.message }), { status: 500, .. })
ErrorResponse(r, msg, o, al) ==
    [NoResponse EXCEPT !.sent = TRUE, !.status = 500, !.cors = Cors(r, o, al),
                       !.contentType = IF r = "index" THEN "application/json" ELSE "text/plain",
                       !.bodyKind = "json", !.error = msg]

\* ------------------------------------------------------ input validation
\* if (!audioFile || !(audioFile instanceof File)) throw ...
NoAudioFile(a) == ~a.present \/ ~a.isFile

\* if (audioFile.size < 100) throw ...   (second file of part_001 only)
AudioTooShort(r, a) == r = "part_001b" /\ a.size < MinAudioSize

\* The message of the error the validation throws; <<>> when it throws none.
AudioError(r, a) ==
    IF NoAudioFile(a) THEN <<"No audio file provided">>
    ELSE IF AudioTooShort(r, a) THEN <<"Audio file too short.">>
    ELSE <<>>

\* --------------------------------------------------------- transcription
\* Mutant of SttFailed: a non-success transcription response is let through.
SttFailed_ignored(resp) == FALSE

\* if (!sttResponse.ok) throw ...
SttFailed(resp) == ~resp.ok

\* The message of the error thrown on a failed transcription.
SttFailMessage(r, resp) ==
    CASE r = "index" -> <<"ElevenLabs STT Failed: ", resp.statusText>>
      [] r = "part_002" -> <<"ElevenLabs STT Failed">>
      [] OTHER -> <<"ElevenLabs STT Failed: ", resp.errBody>>

\* const userText = sttJson.text            (part_000, part_001 first file, index)
\* const userText = sttJson.text || ""      (part_001 second file, part_002)
ExtractUserText(r, resp) ==
    IF r \in {"part_001b", "part_002"} THEN OrElse(resp.text, Str(<<>>)) ELSE resp.text

\* let aiText = "I couldn't hear you, Officer. Say again?"
InitialAiText(r) == IF r \in {"part_001b", "part_002"} THEN HEAR_FALLBACK ELSE Undefined

\* if (userText.trim().length > 1) { ...generation... }: the revisions with
\* the guard skip generation when it is false.
SkipsGeneration(r, ut) ==
    r \in {"part_001b", "part_002"} /\ ~(Len(Trim(ut.s)) > 1)

\* ------------------------------------------------------------ generation
SYSTEM_PROMPT == Str(<<"You are Marcus Chen, ...">>)

NoPayload == [sent |-> FALSE, systemInstruction |-> Undefined, contents |-> <<>>,
              jsonMode |-> FALSE]

\* One entry of the contents array sent to Gemini.
Entry(role, parts) == [isNull |-> FALSE, role |-> role, parts |-> parts, content |-> Undefined]

\* `User said: "${userText}"`
UserSaid(ut) == Str(<<"User said: \"">> \o JsString(ut) \o <<"\"">>)

\* JSON.parse of the history field inside try/catch: the parsed value, or the
\* initial [] when the field is not parsed or is not JSON.
\*   index:     if (historyRaw) history = JSON.parse(historyRaw)
\*   part_002:  if (typeof historyRaw === 'string') previousContext = JSON.parse(historyRaw)
ParseHistory(r, raw) ==
    LET attempted == IF r = "index" THEN raw.type = "File" \/ (raw.type = "string" /\ raw.doc # "")
                     ELSE raw.type = "string"
        isJson == raw.type = "string" /\ raw.doc \in {"array", "object"}
    IN IF attempted /\ isJson
       THEN [isArray |-> raw.doc = "array", items |-> raw.items]
       ELSE [isArray |-> TRUE, items |-> <<>>]

\* index: { role: msg.role === "assistant" ? "model" : "user", parts: [{ text: msg.content }] }
MapTurn(msg) ==
    Entry(IF msg.role = "assistant" THEN "model" ELSE "user", <<msg.content>>)

\* part_002: ...previousContext copies each entry as it was submitted.
CopyTurn(msg) ==
    [isNull |-> msg.isNull, role |-> msg.role, parts |-> <<>>, content |-> msg.content]

\* Building the request throws a TypeError before anything is sent:
\*   index:     history.map on a non-array, msg.role on a null entry
\*   part_002:  spreading a non-iterable
BuildThrows(r, h) ==
    CASE r = "index" -> ~h.isArray \/ \E i \in 1..Len(h.items) : h.items[i].isNull
      [] r = "part_002" -> ~h.isArray
      [] OTHER -> FALSE

\* The body of the generateContent request.
BuildPayload(r, h, ut) ==
    CASE r = "index" ->
           [sent |-> TRUE, systemInstruction |-> Undefined, jsonMode |-> TRUE,
            contents |-> <<Entry("user", <<SYSTEM_PROMPT>>)>>
                         \o [i \in 1..Len(h.items) |-> MapTurn(h.items[i])]
                         \o <<Entry("user", <<ut>>)>>]
      [] r = "part_002" ->
           [sent |-> TRUE, systemInstruction |-> SYSTEM_PROMPT, jsonMode |-> FALSE,
            contents |-> [i \in 1..Len(h.items) |-> CopyTurn(h.items[i])]
                         \o <<Entry("user", <<ut>>)>>]
      [] OTHER ->
           [sent |-> TRUE, systemInstruction |-> Undefined, jsonMode |-> FALSE,
            contents |-> <<Entry("", <<SYSTEM_PROMPT, UserSaid(ut)>>)>>]

\* BrainResponse, as JSON.parse gives it.
NoNumber == [def |-> FALSE, n |-> 0]
NoBrain == [parsed |-> FALSE, isNull |-> FALSE, text |-> Undefined, compliance |-> NoNumber]
Brain(text, compliance) ==
    [parsed |-> TRUE, isNull |-> FALSE, text |-> text, compliance |-> compliance]

\* JSON.parse(rawJSON): the documents the model knows; any other text is not JSON.
IsJson(s) == Len(s) = 1 /\ s[1] \in JsonDocs
JsonParse(s) ==
    CASE s = <<"{text:'Nah man',compliance:50}">> ->
           Brain(Str(<<"Nah man">>), [def |-> TRUE, n |-> 50])
      [] s = <<"{text:'Nah man'}">> -> Brain(Str(<<"Nah man">>), NoNumber)
      [] s = <<"{compliance:50}">> -> Brain(Undefined, [def |-> TRUE, n |-> 50])
      [] OTHER -> [parsed |-> TRUE, isNull |-> TRUE, text |-> Undefined,
                   compliance |-> NoNumber]

\* Number.prototype.toString
NumberToString(n) == IF n = 50 THEN <<"50">> ELSE <<"0">>

Outcome(msg, ai, brain) == [error |-> msg, aiText |-> ai, brainData |-> brain]

\* part_000 and part_001 (first file): a failed call throws.
GeminiOutcome_throwing(resp, ai) ==
    IF ~resp.ok THEN Outcome(<<"Gemini API Failed: ", resp.errBody>>, ai, NoBrain)
    ELSE IF ~resp.parseable THEN Outcome(<<"SyntaxError">>, ai, NoBrain)
    ELSE Outcome(<<>>, OrElse(resp.cand, DOTS), NoBrain)

\* part_001 (second file) and part_002: a failed call degrades to the apology.
GeminiOutcome_fallback(resp, ai) ==
    IF ~resp.ok THEN Outcome(<<>>, ERROR_FALLBACK, NoBrain)
    ELSE IF ~resp.parseable THEN Outcome(<<"SyntaxError">>, ai, NoBrain)
    ELSE Outcome(<<>>, OrElse(resp.cand, ai), NoBrain)

\* index: the body is read whatever the status, and must hold a JSON document.
GeminiOutcome_index(resp, ai) ==
    IF ~resp.parseable THEN Outcome(<<"SyntaxError">>, ai, NoBrain)
    ELSE IF ~Truthy(resp.cand) THEN Outcome(<<"Gemini returned empty response">>, ai, NoBrain)
    ELSE IF ~IsJson(resp.cand.s) THEN Outcome(<<"SyntaxError">>, ai, NoBrain)
    ELSE Outcome(<<>>, ai, JsonParse(resp.cand.s))

GeminiOutcome(r, resp, ai) ==
    CASE r = "index" -> GeminiOutcome_index(resp, ai)
      [] r \in {"part_001b", "part_002"} -> GeminiOutcome_fallback(resp, ai)
      [] OTHER -> GeminiOutcome_throwing(resp, ai)

\* ------------------------------------------------------------- synthesis
\* Reading brainData.text of null throws before the request is sent.
TtsBuildThrows(r, brain) == r = "index" /\ brain.isNull

\* text: aiText   /   text: brainData.text
TtsInput(r, ai, brain) == IF r = "index" THEN brain.text ELSE ai

\* Mutant of TtsFailed: a non-success synthesis response is let through.
TtsFailed_ignored(resp) == FALSE

\* if (!ttsResponse.ok) throw ...
TtsFailed(resp) == ~resp.ok

TtsFailMessage(r, resp) ==
    IF r \in {"part_000", "part_001a"} THEN <<"ElevenLabs TTS Failed: ", resp.errBody>>
    ELSE <<"ElevenLabs TTS Failed">>

\* brainData.compliance.toString() throws when there is no compliance field.
HeadersThrow(r, brain) == r = "index" /\ ~brain.compliance.def

\* The audio response with its metadata headers.
SuccessResponse(r, ut, ai, brain, tts, o, al) ==
    [NoResponse EXCEPT
        !.sent = TRUE, !.status = 200,
        !.cors = IF r = "index" THEN Cors(r, o, al)
                 ELSE [Cors(r, o, al) EXCEPT !.expose = "X-Ai-Text, X-User-Text"],
        !.contentType = "audio/mpeg",
        !.xAiText = Str(JsString(TtsInput(r, ai, brain))),
        !.xUserText = Str(JsString(ut)),
        !.xScore = IF r = "index" THEN Str(NumberToString(brain.compliance.n)) ELSE Undefined,
        !.bodyKind = "audio", !.audio = tts.audio]

\* ----------------------------------------------------------- the handler
Init ==
    /\ rev \in Revs
    /\ pc = "Idle"
    /\ method = ""
    /\ audio = NoAudio
    /\ historyRaw = NoHistory
    /\ origin = Undefined
    /\ allowed = Undefined
    /\ sttResponse = NoSttResponse
    /\ userText = Undefined
    /\ geminiPayload = NoPayload
    /\ geminiResponse = NoGeminiResponse
    /\ aiText = Undefined
    /\ brainData = NoBrain
    /\ ttsText = Undefined
    /\ ttsResponse = NoTtsResponse
    /\ calls = <<>>
    /\ response = NoResponse

\* The catch block answers the thrown error; the turn has failed.
Throw(msg) ==
    \E c \in CorsReads(rev) :
        /\ origin' = c[1]
        /\ allowed' = c[2]
        /\ response' = ErrorResponse(rev, msg, c[1], c[2])
        /\ pc' = "Failed"

\* fetch is entered: the method gate.
Start ==
    /\ pc = "Idle"
    /\ \E m \in Methods :
        /\ method' = m
        /\ IF m = "POST"
           THEN /\ pc' = "ReceivingInput"
                /\ UNCHANGED <<origin, allowed, response>>
           ELSE \E c \in CorsReads(rev) :
                /\ origin' = c[1]
                /\ allowed' = c[2]
                /\ pc' = "Responded"
                /\ response' = IF m = "OPTIONS"
                               THEN PreflightResponse(rev, c[1], c[2])
                               ELSE MethodNotAllowedResponse(rev, c[1], c[2])
    /\ UNCHANGED <<rev, audio, historyRaw, sttResponse, userText, geminiPayload,
                   geminiResponse, aiText, brainData, ttsText, ttsResponse, calls>>

\* The form is read and the audio field validated.
ReceiveInput ==
    /\ pc = "ReceivingInput"
    /\ \E a \in AudioInputs, h \in HistoryReads(rev) :
        /\ audio' = a
        /\ historyRaw' = h
        /\ IF AudioError(rev, a) # <<>>
           THEN Throw(AudioError(rev, a))
           ELSE /\ pc' = "Transcribing"
                /\ UNCHANGED <<origin, allowed, response>>
    /\ UNCHANGED <<rev, method, sttResponse, userText, geminiPayload, geminiResponse,
                   aiText, brainData, ttsText, ttsResponse, calls>>

\* The speech-to-text call and what the handler does with its response.
Transcribe ==
    /\ pc = "Transcribing"
    /\ \E resp \in SttResponses :
        /\ calls' = Append(calls, "stt")
        /\ sttResponse' = resp
        /\ IF SttFailed(resp)
           THEN /\ Throw(SttFailMessage(rev, resp))
                /\ UNCHANGED <<userText, aiText>>
           ELSE /\ userText' = ExtractUserText(rev, resp)
                /\ aiText' = InitialAiText(rev)
                /\ pc' = IF SkipsGeneration(rev, ExtractUserText(rev, resp))
                         THEN "SkippedGeneration" ELSE "Generating"
                /\ UNCHANGED <<origin, allowed, response>>
    /\ UNCHANGED <<rev, method, audio, historyRaw, geminiPayload, geminiResponse,
                   brainData, ttsText, ttsResponse>>

\* The generation step: the request is built from the persona, the history
\* and the transcript, sent, and the reply text taken from the response.
Generate ==
    /\ pc = "Generating"
    /\ LET h == ParseHistory(rev, historyRaw) IN
       IF BuildThrows(rev, h)
       THEN /\ Throw(<<"TypeError">>)
            /\ UNCHANGED <<geminiPayload, geminiResponse, aiText, brainData, calls>>
       ELSE \E resp \in GeminiResponses :
            LET out == GeminiOutcome(rev, resp, aiText) IN
            /\ geminiPayload' = BuildPayload(rev, h, userText)
            /\ calls' = Append(calls, "gemini")
            /\ geminiResponse' = resp
            /\ aiText' = out.aiText
            /\ brainData' = out.brainData
            /\ IF out.error # <<>>
               THEN Throw(out.error)
               ELSE /\ pc' = "Synthesizing"
                    /\ UNCHANGED <<origin, allowed, response>>
    /\ UNCHANGED <<rev, method, audio, historyRaw, sttResponse, userText,
                   ttsText, ttsResponse>>

\* No usable speech: the reply stays the "couldn't hear you" sentence.
SkipGeneration ==
    /\ pc = "SkippedGeneration"
    /\ pc' = "Synthesizing"
    /\ UNCHANGED <<rev, method, audio, historyRaw, origin, allowed, sttResponse,
                   userText, geminiPayload, geminiResponse, aiText, brainData,
                   ttsText, ttsResponse, calls, response>>

\* The text-to-speech call and the assembly of the response.
Synthesize ==
    /\ pc = "Synthesizing"
    /\ IF TtsBuildThrows(rev, brainData)
       THEN /\ Throw(<<"TypeError">>)
            /\ UNCHANGED <<ttsText, ttsResponse, calls>>
       ELSE \E resp \in TtsResponses :
            /\ calls' = Append(calls, "tts")
            /\ ttsText' = TtsInput(rev, aiText, brainData)
            /\ ttsResponse' = resp
            /\ IF TtsFailed(resp) THEN Throw(TtsFailMessage(rev, resp))
               ELSE IF HeadersThrow(rev, brainData) THEN Throw(<<"TypeError">>)
               ELSE \E c \in CorsReads(rev) :
                    /\ origin' = c[1]
                    /\ allowed' = c[2]
                    /\ pc' = "Done"
                    /\ response' = SuccessResponse(rev, userText, aiText, brainData,
                                                   resp, c[1], c[2])
    /\ UNCHANGED <<rev, method, audio, historyRaw, sttResponse, userText,
                   geminiPayload, geminiResponse, aiText, brainData>>

Next ==
    \/ Start
    \/ ReceiveInput
    \/ Transcribe
    \/ Generate
    \/ SkipGeneration
    \/ Synthesize

Spec == Init /\ [][Next]_vars

TypeOK ==
    /\ rev \in Revs
    /\ pc \in {"Idle", "ReceivingInput", "Transcribing", "Generating",
               "SkippedGeneration", "Synthesizing", "Done", "Failed", "Responded"}
    /\ response.sent <=> pc \in {"Done", "Failed", "Responded"}

\* ---------------------------------------------------------------- claims
Called(svc) == Includes(calls, svc)

\* The transcript as text: a missing text field reads as the empty string.
HeardText == OrElse(sttResponse.text, Str(<<>>)).s

\* A failure response: non-success status, JSON body {error: message}, no audio.
IsFailureResponse ==
    /\ pc = "Failed"
    /\ response.sent
    /\ response.status >= 400
    /\ response.bodyKind = "json"
    /\ response.error # <<>>
    /\ response.audio = ""

\* An audio response.
IsSuccessResponse ==
    /\ pc = "Done"
    /\ response.sent
    /\ response.status = 200
    /\ response.bodyKind = "audio"

\* C1: a POST whose audio field is missing, is not a file, or is smaller than
\* 100 bytes is answered with a failure, and no transcription, generation or
\* synthesis call is made for it.
C1_InvalidInputMakesNoCalls ==
    (method = "POST" /\ pc # "ReceivingInput"
        /\ (NoAudioFile(audio) \/ audio.size < MinAudioSize))
    => (IsFailureResponse /\ calls = <<>>)

\* C2: when transcription succeeds with a missing, empty or whitespace-only
\* transcript (at most one character after trimming), generation is never
\* called, the reply is the "couldn't hear you" sentence, and that sentence is
\* what synthesis is given.
C2_SilenceSkipsGeneration ==
    (sttResponse.received /\ sttResponse.ok /\ Len(Trim(HeardText)) <= 1)
    => /\ ~Called("gemini")
       /\ aiText = HEAR_FALLBACK
       /\ (ttsResponse.received => ttsText = HEAR_FALLBACK)

\* C3: with a non-empty transcript, a non-success generation response does not
\* abort the turn: the reply is the apology sentence, synthesis is called with
\* it, and when synthesis succeeds the response is the synthesized audio.
C3_GenerationFailureDegrades ==
    (geminiResponse.received /\ ~geminiResponse.ok /\ Len(Trim(HeardText)) > 1)
    => /\ aiText = ERROR_FALLBACK
       /\ (pc = "Failed" => ttsResponse.received)
       /\ (ttsResponse.received => ttsText = ERROR_FALLBACK)
       /\ (ttsResponse.received /\ ttsResponse.ok
              => IsSuccessResponse /\ response.audio = ttsResponse.audio)

\* The reply text the generation service returned: the candidate text, or in
\* the JSON contract the text field of the document it holds.
GenerationSucceeded ==
    /\ geminiResponse.received /\ geminiResponse.ok /\ geminiResponse.parseable
    /\ Truthy(geminiResponse.cand)
    /\ rev = "index" => /\ IsJson(geminiResponse.cand.s)
                        /\ Truthy(JsonParse(geminiResponse.cand.s).text)
ReturnedText ==
    IF rev = "index" THEN JsonParse(geminiResponse.cand.s).text ELSE geminiResponse.cand

\* C4: with a non-empty transcript, when generation and synthesis both
\* succeed the response is a success whose body is the synthesized audio,
\* whose X-User-Text is the transcript and whose X-Ai-Text, like the text given
\* to synthesis, is the text the generation service returned.
C4_SuccessCarriesTexts ==
    (Len(Trim(HeardText)) > 1 /\ GenerationSucceeded
        /\ ttsResponse.received /\ ttsResponse.ok)
    => /\ IsSuccessResponse
       /\ response.audio = ttsResponse.audio
       /\ response.xUserText = Str(HeardText)
       /\ response.xAiText = ReturnedText
       /\ ttsText = ReturnedText

\* The candidate text of a JSON-contract reply is not a JSON document, or is
\* one without a text field.
MalformedGenerationOutput ==
    /\ rev = "index"
    /\ geminiResponse.received /\ geminiResponse.parseable
    /\ Truthy(geminiResponse.cand)
    /\ \/ ~IsJson(geminiResponse.cand.s)
       \/ ~JsonParse(geminiResponse.cand.s).text.def

\* C5: under the JSON contract, output that is not JSON or has no text field
\* fails the turn: no success response, and synthesis is never called with a
\* missing reply text.
C5_MalformedOutputFails ==
    MalformedGenerationOutput => (pc # "Done" /\ ~Called("tts"))

\* The submitted history is an array of N turns.
HistoryOfTurns ==
    /\ historyRaw.type = "string" /\ historyRaw.doc = "array"
    /\ \A i \in 1..Len(historyRaw.items) : ~historyRaw.items[i].isNull

\* The conversation of a request: its contents without the persona entry the
\* JSON-contract revision puts first.
Conversation ==
    IF rev = "index" THEN Tail(geminiPayload.contents) ELSE geminiPayload.contents
EntryText(e) == IF e.parts # <<>> THEN e.parts[Len(e.parts)] ELSE e.content

\* C6: the conversation sent to generation holds the N submitted entries in
\* their order, each with its role mapped ("assistant" to "model", otherwise
\* "user") and its content unchanged, followed by the transcript as the last
\* entry, with role "user".
C6_HistoryForwardedInOrder ==
    (geminiPayload.sent /\ HistoryOfTurns)
    => LET n == Len(historyRaw.items) IN
       /\ Len(Conversation) = n + 1
       /\ \A i \in 1..n :
            /\ Conversation[i].role =
                 (IF historyRaw.items[i].role = "assistant" THEN "model" ELSE "user")
            /\ EntryText(Conversation[i]) = historyRaw.items[i].content
       /\ Conversation[n + 1].role = "user"
       /\ EntryText(Conversation[n + 1]) = userText

\* C7: a turn moves ReceivingInput -> Transcribing -> (Generating |
\* SkippedGeneration) -> Synthesizing -> Done, and reaches Failed only from
\* ReceivingInput, Transcribing and Synthesizing, never from Generating.
TurnTransitions ==
    {<<"Idle", "ReceivingInput">>, <<"Idle", "Responded">>,
     <<"ReceivingInput", "Transcribing">>,
     <<"Transcribing", "Generating">>, <<"Transcribing", "SkippedGeneration">>,
     <<"Generating", "Synthesizing">>, <<"SkippedGeneration", "Synthesizing">>,
     <<"Synthesizing", "Done">>,
     <<"ReceivingInput", "Failed">>, <<"Transcribing", "Failed">>,
     <<"Synthesizing", "Failed">>}
C7_GenerationNeverFails ==
    [][pc' # pc => <<pc, pc'>> \in TurnTransitions]_vars

\* C8: a non-success response of the transcription or of the synthesis
\* service ends the turn with a failure response, and after a failed
\* transcription neither generation nor synthesis is called.
C8_UpstreamFailureIsFatal ==
    /\ (sttResponse.received /\ ~sttResponse.ok)
          => (IsFailureResponse /\ calls = <<"stt">>)
    /\ (ttsResponse.received /\ ~ttsResponse.ok) => IsFailureResponse

\* A whole turn ran and synthesis refused: the failure response is in place.
C8_Witness ==
    /\ Called("stt") /\ Called("tts")
    /\ ttsResponse.received /\ ~ttsResponse.ok
    /\ pc = "Failed" /\ response.status = 500

\* C9: a success response always carries X-User-Text and X-Ai-Text as defined
\* text, also when transcription or generation gave no text, and carries
\* X-Compliance-Score exactly under the JSON contract.
C9_MetadataAlwaysDefined ==
    IsSuccessResponse
    => /\ response.xUserText.def /\ response.xUserText.s # <<"undefined">>
       /\ response.xAiText.def /\ response.xAiText.s # <<"undefined">>
       /\ response.xScore.def <=> rev = "index"

\* The request's Origin is a non-empty entry of the configured allow-list.
OriginOnList == Truthy(origin) /\ Includes(allowedOrigins(allowed), origin.s)

\* C10 as stated: with an allow-list configured, a listed Origin is echoed,
\* and any other request gets a default that is no allow-listed origin.
C10_DefaultIsNeverListed ==
    (rev = "part_001a" /\ response.sent /\ Truthy(allowed))
    => /\ OriginOnList => response.cors.acao = origin.s
       /\ ~OriginOnList => ~Includes(allowedOrigins(allowed), response.cors.acao)

\* C10, amended: the allow-list revision echoes a listed Origin and answers
\* every other request with the first entry of the list (localhost:5173 when
\* that entry is empty); the other revisions answer the wildcard.
C10_DefaultIsFirstEntry ==
    response.sent
    => IF rev # "part_001a" THEN response.cors.acao = STAR
       ELSE IF OriginOnList THEN response.cors.acao = origin.s
       ELSE LET first == allowedOrigins(allowed)[1] IN
            response.cors.acao = (IF first # <<>> THEN first ELSE LOCALHOST)

\* An audio response to an unlisted Origin carries a listed origin's value.
C10_Witness ==
    /\ rev = "part_001a" /\ IsSuccessResponse
    /\ Truthy(allowed) /\ Truthy(origin) /\ ~OriginOnList
    /\ response.cors.acao # origin.s
    /\ Includes(allowedOrigins(allowed), response.cors.acao)

\* What an upstream service put in a failing response: its error body or its
\* status text.
UpstreamErrorContent == ErrBodies \cup StatusTexts

\* C11: the body of a failure response depends only on the stage that failed:
\* nothing of the failing service's error body or status text is in it, so
\* two turns that differ only in that content get the same failure response.
C11_FailureBodyHidesUpstream ==
    IsFailureResponse
    => \A e \in UpstreamErrorContent : ~Includes(response.error, e)

\* C12: within a turn each service is called at most once and in order:
\* generation only after a successful transcription, synthesis only after the
\* generation step has finished or was skipped.
C12_CallsSequentialOnce ==
    /\ calls \in {<<>>, <<"stt">>, <<"stt", "gemini">>, <<"stt", "tts">>,
                  <<"stt", "gemini", "tts">>}
    /\ Called("gemini") => (sttResponse.received /\ sttResponse.ok)
    /\ Called("tts") => /\ sttResponse.received /\ sttResponse.ok
                        /\ IF Called("gemini") THEN geminiResponse.received
                           ELSE SkipsGeneration(rev, userText)

\* A turn that made the three calls, one after the other, and succeeded.
C12_Witness ==
    /\ calls = <<"stt", "gemini", "tts">>
    /\ sttResponse.ok /\ geminiResponse.received /\ ttsResponse.ok
    /\ IsSuccessResponse

\* C13: generation is called exactly when the trimmed transcript has more
\* than one character: a one-character transcript is treated as silence and
\* answered with the fallback, a longer one is always sent to generation.
C13_GenerationIffLongTranscript ==
    (sttResponse.received /\ sttResponse.ok)
    => /\ pc = "Generating" => Len(Trim(HeardText)) > 1
       /\ Called("gemini") => Len(Trim(HeardText)) > 1
       /\ (pc \in {"Synthesizing", "Done"} \/ Called("tts"))
            => (Called("gemini") <=> Len(Trim(HeardText)) > 1)
       /\ (Len(Trim(HeardText)) <= 1 /\ pc \in {"Synthesizing", "Done"})
            => aiText = HEAR_FALLBACK

\* C14: a history field that is absent, is not JSON or is not an array of
\* turns never fails the turn: the generation step goes on as with an empty
\* history and sends only the persona and the transcript.
C14_BadHistoryIsEmptyHistory ==
    [][(pc = "Generating" /\ rev \in {"part_002", "index"} /\ ~HistoryOfTurns)
        => /\ geminiPayload'.sent
           /\ Conversation' = <<Entry("user", <<userText>>)>>]_vars

\* C15: once synthesis has answered with success the turn ends in the success
\* response carrying that audio; no failure response follows it.
C15_SuccessAfterSynthesis ==
    (ttsResponse.received /\ ttsResponse.ok)
    => (IsSuccessResponse /\ response.audio = ttsResponse.audio)

====
